---- MODULE Spec2Model ----
(***************************************************************************)
(* Matrix4 of sample_files/matrix_math.cpp: a heap buffer of 16 floats in  *)
(* row-major order with identity(), multiply(other), setTranslation(x,y,z) *)
(* and getDeterminant().                                                   *)
(*                                                                         *)
(* A float is modelled by an integer: every value the model reaches is an  *)
(* integer of magnitude far below 2^24, where float addition and           *)
(* multiplication are exact.  Non-finite and fractional floats are outside *)
(* the model.                                                              *)
(*                                                                         *)
(* multiply is modelled statement by statement (lines 29, 32, 38, 39), so  *)
(* that the states in the middle of a call are states of the model; the    *)
(* other methods are single assignments and are one action each.           *)
(***************************************************************************)
EXTENDS Integers, FiniteSets, Sequences, TLC

\* ---------------------------------------------------------------- sizes
Dim == 4
Size == 16

\* ---------------------------------------------------------------- bounds
\* Largest magnitude of a matrix element a call may produce.
MaxAbs == 16
\* Number of API calls made on a pool of arbitrary matrices (SpecArb).
MaxCalls == 2
\* Seeds of the arbitrary matrices, 0..MaxSeed.
MaxSeed == 1

\* ---------------------------------------------------------------- inputs
\* The objects of main(): matA and matB.
Mats == {"matA", "matB"}

Idx == 0 .. (Size - 1)

\* Arguments of setTranslation: those of main(), and one with a negative
\* coordinate.
TransArgs == {<<10, 5, 0>>, <<2, 3, 1>>, <<-3, 0, 4>>}

\* A dense matrix with elements in -2..2, one per seed.
Arb(s) ==
  [j \in Idx |->
     (((j + 1) * (j + s + 2) * (2 * j + 3 * s + 1) + (j \div 4) * ((j % 4) + s)) % 5) - 2]

\* mat with row 0 of its upper-left 3x3 block copied into row 1 of the block.
DupRow(mat) == [mat EXCEPT ![4] = mat[0], ![5] = mat[1], ![6] = mat[2]]

\* mat with its upper-left 3x3 block replaced by the 3x3 identity.
IdBlock(mat) ==
  [j \in Idx |->
     IF j \in {0, 5, 10} THEN 1
     ELSE IF j \in {1, 2, 4, 6, 8, 9} THEN 0
     ELSE mat[j]]

VARIABLES
  m,      \* m[a][j]: element j of the buffer of matrix a
  pc,     \* "ready", or the line multiply is about to execute
  self,   \* receiver of the current (or last) call
  other,  \* argument of the current (or last) multiply
  temp,   \* multiply's temporary buffer: the elements written so far
  r, c, k, i,  \* multiply's loop counters
  op,     \* the current (or last) call
  xyz,    \* arguments of the last setTranslation
  ret,    \* value returned by the last getDeterminant
  m0,     \* the pool as it was when the current (or last) call was entered
  calls   \* number of calls made, counted up to MaxCalls

vars == <<m, pc, self, other, temp, r, c, k, i, op, xyz, ret, m0, calls>>

\* ---------------------------------------------------------------- identity
\* identity() without the loop of line 19.
IdentityNoClear(mat) == [mat EXCEPT ![0] = 1, ![5] = 1, ![10] = 1, ![15] = 1]

\* identity(): line 19 zeroes all 16 elements, line 20 sets the diagonal.
IdentityOf(mat) ==
  LET zeroed == [j \in DOMAIN mat |-> 0]
  IN  [zeroed EXCEPT ![0] = 1, ![5] = 1, ![10] = 1, ![15] = 1]

\* Matrix4(): a fresh, uninitialised buffer, then identity().
Matrix4New(garbage) == IdentityOf(garbage)

\* ---------------------------------------------------------------- setTranslation
\* setTranslation writing the fourth column (3, 7, 11) instead of the fourth row.
SetTranslationColumn(mat, t) == [mat EXCEPT ![3] = t[1], ![7] = t[2], ![11] = t[3]]

SetTranslationOf(mat, t) == [mat EXCEPT ![12] = t[1], ![13] = t[2], ![14] = t[3]]

\* ---------------------------------------------------------------- getDeterminant
\* getDeterminant with the sign of the middle term flipped.
GetDeterminantSign(mat) ==
    mat[0] * (mat[5] * mat[10] - mat[6] * mat[9])
  + mat[1] * (mat[4] * mat[10] - mat[6] * mat[8])
  + mat[2] * (mat[4] * mat[9] - mat[5] * mat[8])

GetDeterminantOf(mat) ==
    mat[0] * (mat[5] * mat[10] - mat[6] * mat[9])
  - mat[1] * (mat[4] * mat[10] - mat[6] * mat[8])
  + mat[2] * (mat[4] * mat[9] - mat[5] * mat[8])

\* ---------------------------------------------------------------- multiply
\* No buffer allocated; also a fresh buffer, none of whose elements is written.
NoBuffer == <<>>

\* The frame of a multiply call on the pool `pool`: line 25 and the loop heads.
Enter(pool, a, b) ==
  [m |-> pool, pc |-> "L29", self |-> a, other |-> b, temp |-> NoBuffer,
   r |-> 0, c |-> 0, k |-> 0, i |-> 0]

\* Line 29: temp[r*4 + c] = 0.0f; the k loop starts.
L29(f) ==
  [f EXCEPT !.temp = ((f.r * Dim + f.c) :> 0) @@ f.temp, !.k = 0, !.pc = "L32"]

\* Line 32 without the temporary buffer: the sum is also stored in the
\* receiver's element at once.
L32InPlace(f) ==
  LET j == f.r * Dim + f.c
      acc == f.temp[j] + f.m[f.self][f.r * Dim + f.k] * f.m[f.other][f.k * Dim + f.c]
      g == [f EXCEPT !.temp[j] = acc, !.m[f.self][j] = acc]
  IN  IF f.k + 1 < Dim THEN [g EXCEPT !.k = f.k + 1]
      ELSE IF f.c + 1 < Dim THEN [g EXCEPT !.k = 0, !.c = f.c + 1, !.pc = "L29"]
      ELSE IF f.r + 1 < Dim THEN [g EXCEPT !.k = 0, !.c = 0, !.r = f.r + 1, !.pc = "L29"]
      ELSE [g EXCEPT !.k = 0, !.c = 0, !.r = 0, !.i = 0, !.pc = "L38"]

\* Line 32 reading other column-major: other->m[c*4 + k].
L32Transposed(f) ==
  LET j == f.r * Dim + f.c
      acc == f.temp[j] + f.m[f.self][f.r * Dim + f.k] * f.m[f.other][f.c * Dim + f.k]
      g == [f EXCEPT !.temp[j] = acc]
  IN  IF f.k + 1 < Dim THEN [g EXCEPT !.k = f.k + 1]
      ELSE IF f.c + 1 < Dim THEN [g EXCEPT !.k = 0, !.c = f.c + 1, !.pc = "L29"]
      ELSE IF f.r + 1 < Dim THEN [g EXCEPT !.k = 0, !.c = 0, !.r = f.r + 1, !.pc = "L29"]
      ELSE [g EXCEPT !.k = 0, !.c = 0, !.r = 0, !.i = 0, !.pc = "L38"]

\* Line 32: temp[r*4 + c] += m[r*4 + k] * other->m[k*4 + c]; then k++, and
\* at the end of a loop the enclosing loop's step.
L32(f) ==
  LET j == f.r * Dim + f.c
      acc == f.temp[j] + f.m[f.self][f.r * Dim + f.k] * f.m[f.other][f.k * Dim + f.c]
      g == [f EXCEPT !.temp[j] = acc]
  IN  IF f.k + 1 < Dim THEN [g EXCEPT !.k = f.k + 1]
      ELSE IF f.c + 1 < Dim THEN [g EXCEPT !.k = 0, !.c = f.c + 1, !.pc = "L29"]
      ELSE IF f.r + 1 < Dim THEN [g EXCEPT !.k = 0, !.c = 0, !.r = f.r + 1, !.pc = "L29"]
      ELSE [g EXCEPT !.k = 0, !.c = 0, !.r = 0, !.i = 0, !.pc = "L38"]

\* Line 38 copying back into the argument: other->m[i] = temp[i].
L38ToOther(f) ==
  LET g == [f EXCEPT !.m[f.other][f.i] = f.temp[f.i]]
  IN  IF f.i + 1 < Size THEN [g EXCEPT !.i = f.i + 1]
      ELSE [g EXCEPT !.i = 0, !.pc = "L39"]

\* Line 38: m[i] = temp[i]; then ++i.
L38(f) ==
  LET g == [f EXCEPT !.m[f.self][f.i] = f.temp[f.i]]
  IN  IF f.i + 1 < Size THEN [g EXCEPT !.i = f.i + 1]
      ELSE [g EXCEPT !.i = 0, !.pc = "L39"]

\* Line 39: delete[] temp; return.
L39(f) == [f EXCEPT !.temp = NoBuffer, !.pc = "ready"]

StepOf(f) ==
  CASE f.pc = "L29" -> L29(f)
    [] f.pc = "L32" -> L32(f)
    [] f.pc = "L38" -> L38(f)
    [] f.pc = "L39" -> L39(f)

RECURSIVE RunToReturn(_)
RunToReturn(f) == IF f.pc = "ready" THEN f ELSE RunToReturn(StepOf(f))

\* The pool after a.multiply(b) has returned.
MultiplyRun(pool, a, b) == RunToReturn(Enter(pool, a, b)).m

\* The receiver after lhs.multiply(rhs), for two distinct objects holding the
\* values A and B.
Times(A, B) == MultiplyRun(("lhs" :> A) @@ ("rhs" :> B), "lhs", "rhs")["lhs"]

\* ---------------------------------------------------------------- state
Frame ==
  [m |-> m, pc |-> pc, self |-> self, other |-> other, temp |-> temp,
   r |-> r, c |-> c, k |-> k, i |-> i]

Load(f) ==
  /\ m' = f.m
  /\ pc' = f.pc
  /\ self' = f.self
  /\ other' = f.other
  /\ temp' = f.temp
  /\ r' = f.r
  /\ c' = f.c
  /\ k' = f.k
  /\ i' = f.i

\* ---------------------------------------------------------------- bounding the calls
\* Element (row, col) of the product of A and B: the sum over n of
\* A[row][n] * B[n][col].
RECURSIVE DotFrom(_, _, _, _, _)
DotFrom(A, B, row, col, n) ==
  IF n = Dim THEN 0
  ELSE A[row * Dim + n] * B[n * Dim + col] + DotFrom(A, B, row, col, n + 1)

Product(A, B) == [j \in Idx |-> DotFrom(A, B, j \div Dim, j % Dim, 0)]

\* No element of mat has a magnitude above MaxAbs.
InRange(mat) == \A j \in Idx : mat[j] >= -MaxAbs /\ mat[j] <= MaxAbs

Counted == calls' = IF calls < MaxCalls THEN calls + 1 ELSE calls

\* The matrices a pool may hold when its elements were written directly
\* through the public member m.
ArbFamily ==
  {IdentityOf(Arb(0))}
    \cup {Arb(s) : s \in 0 .. MaxSeed}
    \cup {DupRow(Arb(s)) : s \in 0 .. MaxSeed}
    \cup {IdBlock(Arb(s)) : s \in 0 .. MaxSeed}

Rest ==
  /\ pc = "ready"
  /\ self = "matA"
  /\ other = "matA"
  /\ temp = NoBuffer
  /\ r = 0 /\ c = 0 /\ k = 0 /\ i = 0
  /\ xyz = <<0, 0, 0>>
  /\ ret = 0
  /\ m0 = m
  /\ calls = 0

\* main(), lines 58-59: every matrix is built by the constructor.
Init ==
  /\ \E g \in [Mats -> ArbFamily] : m = [a \in Mats |-> Matrix4New(g[a])]
  /\ op = "new"
  /\ Rest

\* A pool of arbitrary matrices.
InitArb ==
  /\ m \in [Mats -> ArbFamily]
  /\ op = "none"
  /\ Rest

\* ---------------------------------------------------------------- actions
Identity(a) ==
  /\ pc = "ready"
  /\ m' = [m EXCEPT ![a] = IdentityOf(m[a])]
  /\ self' = a /\ other' = a
  /\ op' = "identity"
  /\ m0' = m
  /\ xyz' = <<0, 0, 0>>
  /\ ret' = 0
  /\ Counted
  /\ UNCHANGED <<pc, temp, r, c, k, i>>

SetTranslation(a, t) ==
  /\ pc = "ready"
  /\ m' = [m EXCEPT ![a] = SetTranslationOf(m[a], t)]
  /\ self' = a /\ other' = a
  /\ op' = "setTranslation"
  /\ m0' = m
  /\ xyz' = t
  /\ ret' = 0
  /\ Counted
  /\ UNCHANGED <<pc, temp, r, c, k, i>>

GetDeterminant(a) ==
  /\ pc = "ready"
  /\ ret' = GetDeterminantOf(m[a])
  /\ self' = a /\ other' = a
  /\ op' = "getDeterminant"
  /\ m0' = m
  /\ xyz' = <<0, 0, 0>>
  /\ Counted
  /\ UNCHANGED <<m, pc, temp, r, c, k, i>>

MultiplyCall(a, b) ==
  /\ pc = "ready"
  /\ InRange(Product(m[a], m[b]))
  /\ Load(Enter(m, a, b))
  /\ op' = "multiply"
  /\ m0' = m
  /\ xyz' = <<0, 0, 0>>
  /\ ret' = 0
  /\ Counted

MultiplyL29 ==
  /\ pc = "L29"
  /\ Load(L29(Frame))
  /\ UNCHANGED <<op, xyz, ret, m0, calls>>

MultiplyL32 ==
  /\ pc = "L32"
  /\ Load(L32(Frame))
  /\ UNCHANGED <<op, xyz, ret, m0, calls>>

MultiplyL38 ==
  /\ pc = "L38"
  /\ Load(L38(Frame))
  /\ UNCHANGED <<op, xyz, ret, m0, calls>>

MultiplyL39 ==
  /\ pc = "L39"
  /\ Load(L39(Frame))
  /\ UNCHANGED <<op, xyz, ret, m0, calls>>

Next ==
  \/ \E a \in Mats : Identity(a)
  \/ \E a \in Mats : \E t \in TransArgs : SetTranslation(a, t)
  \/ \E a \in Mats : GetDeterminant(a)
  \/ \E a \in Mats : \E b \in Mats : MultiplyCall(a, b)
  \/ MultiplyL29
  \/ MultiplyL32
  \/ MultiplyL38
  \/ MultiplyL39

Spec == Init /\ [][Next]_vars

\* At most MaxCalls calls.
NextArb ==
  \/ \E a \in Mats : calls < MaxCalls /\ Identity(a)
  \/ \E a \in Mats : \E t \in TransArgs : calls < MaxCalls /\ SetTranslation(a, t)
  \/ \E a \in Mats : calls < MaxCalls /\ GetDeterminant(a)
  \/ \E a \in Mats : \E b \in Mats : calls < MaxCalls /\ MultiplyCall(a, b)
  \/ MultiplyL29
  \/ MultiplyL32
  \/ MultiplyL38
  \/ MultiplyL39

SpecArb == InitArb /\ [][NextArb]_vars

TypeOK ==
  /\ m \in [Mats -> [Idx -> Int]]
  /\ pc \in {"ready", "L29", "L32", "L38", "L39"}
  /\ self \in Mats /\ other \in Mats
  /\ DOMAIN temp \subseteq Idx
  /\ r \in 0 .. (Dim - 1) /\ c \in 0 .. (Dim - 1) /\ k \in 0 .. (Dim - 1)
  /\ i \in Idx
  /\ calls \in 0 .. MaxCalls

\* ---------------------------------------------------------------- vocabulary of the claims
\* The call `o` has returned and nothing was called since.
Returned(o) == pc = "ready" /\ op = o

\* The identity state: elements 0, 5, 10, 15 are 1 and the other twelve 0.
IsIdentityState(mat) ==
  \A j \in Idx : mat[j] = (IF j \in {0, 5, 10, 15} THEN 1 ELSE 0)

\* The upper-left 3x3 block of mat, as block[row][col].
Block3(mat) == [row \in 0 .. 2 |-> [col \in 0 .. 2 |-> mat[row * Dim + col]]]

\* The 3x3 determinant by cofactor expansion along row 0: the sum over the
\* columns j of (-1)^j * b[0][j] * (the 2x2 minor without row 0 and column j).
Minor(b, j) ==
  LET lo == IF j = 0 THEN 1 ELSE 0
      hi == IF j = 2 THEN 1 ELSE 2
  IN  b[1][lo] * b[2][hi] - b[1][hi] * b[2][lo]

Cofactor3(b) == b[0][0] * Minor(b, 0) - b[0][1] * Minor(b, 1) + b[0][2] * Minor(b, 2)

\* A pure translation: identity block, elements 3, 7, 11 zero, element 15 one.
IsPureTranslation(mat) ==
  \A j \in Idx \ {12, 13, 14} : mat[j] = (IF j \in {0, 5, 10, 15} THEN 1 ELSE 0)

\* ---------------------------------------------------------------- C1
\* C1: after this.multiply(other) returns, also when other is this, element
\* r*4+c of this is the sum over k of old_this[r*4+k] * old_other[k*4+c].
C1_MultiplyIsProduct ==
  Returned("multiply") =>
    \A row \in 0 .. (Dim - 1) : \A col \in 0 .. (Dim - 1) :
      m[self][row * Dim + col]
        = DotFrom(m0[self], m0[other], row, col, 0)

\* A matrix that is no identity was multiplied by itself and has changed.
C1_Witness ==
  /\ Returned("multiply")
  /\ self = other
  /\ m0[self][1] # 0 /\ m0[self][4] # 0 /\ m0[self][11] # 0
  /\ m[self] # m0[self]

\* ---------------------------------------------------------------- C2
\* C2: while multiply is computing the product (lines 29 and 32), the
\* receiver holds its pre-call values; an element of the receiver is written
\* only once all 16 entries of the product are in temp, and then with the
\* final entry.
C2_NoPartialResult ==
  (op = "multiply" /\ pc # "ready") =>
    /\ pc \in {"L29", "L32"} => m = m0
    /\ pc \in {"L38", "L39"} =>
         /\ DOMAIN temp = Idx
         /\ \A j \in Idx : temp[j] = DotFrom(m0[self], m0[other], j \div Dim, j % Dim, 0)
         /\ \A j \in Idx : m[self][j] = m0[self][j] \/ m[self][j] = temp[j]

\* In the last row of the product, with a partial sum in temp that differs
\* from the receiver's element.
C2_Witness ==
  /\ op = "multiply" /\ pc = "L32"
  /\ r = 3 /\ c = 2 /\ k = 2
  /\ temp[0] # m0[self][0]
  /\ temp[14] # DotFrom(m0[self], m0[other], 3, 2, 0)

\* ---------------------------------------------------------------- C3
\* C3 as stated: after this.multiply(other), all 16 elements of other are as
\* before the call, and no matrix other than the receiver has changed.
C3_OtherUntouched ==
  Returned("multiply") =>
    /\ m[other] = m0[other]
    /\ \A b \in Mats \ {self} : m[b] = m0[b]

\* C3 amended: at every step of this.multiply(other) and after it, no matrix
\* other than the receiver has changed; so other is as before the call
\* unless other is the receiver itself.
C3_OnlyReceiverChanges ==
  op = "multiply" =>
    /\ \A b \in Mats \ {self} : m[b] = m0[b]
    /\ other # self => m[other] = m0[other]

\* multiply returned, for two distinct objects, and changed the receiver.
C3_Witness ==
  /\ Returned("multiply")
  /\ self # other
  /\ m[self] # m0[self]
  /\ ~IsIdentityState(m0[other])

\* ---------------------------------------------------------------- C4
\* C4: after setTranslation(x, y, z), elements 12, 13, 14 are x, y, z and the
\* other 13 elements are as before the call.
C4_SetTranslationFrame ==
  Returned("setTranslation") =>
    /\ m[self][12] = xyz[1] /\ m[self][13] = xyz[2] /\ m[self][14] = xyz[3]
    /\ \A j \in Idx \ {12, 13, 14} : m[self][j] = m0[self][j]

\* setTranslation changed a dense matrix.
C4_Witness ==
  /\ Returned("setTranslation")
  /\ m[self] # m0[self]
  /\ m0[self][3] # 0 /\ m0[self][7] # 0 /\ m0[self][11] # 0 /\ m0[self][1] # 0

\* ---------------------------------------------------------------- C5
\* C5: if the receiver is in the identity state, multiply(N) leaves it equal
\* to N; if the argument is in the identity state, multiply leaves the
\* receiver unchanged.
C5_IdentityIsNeutral ==
  Returned("multiply") =>
    /\ IsIdentityState(m0[self]) => m[self] = m0[other]
    /\ IsIdentityState(m0[other]) => m[self] = m0[self]

\* An identity receiver was multiplied by a matrix that is no identity.
C5_Witness ==
  /\ Returned("multiply")
  /\ IsIdentityState(m0[self])
  /\ ~IsIdentityState(m0[other])
  /\ m0[other][3] # 0

\* ---------------------------------------------------------------- C6
\* C6: (A x B) x C = A x (B x C): the receiver after A.multiply(B), when
\* multiplied by any C, equals the old A multiplied by (old B multiplied by C).
C6_Associative ==
  Returned("multiply") =>
    \A C \in ArbFamily :
      Times(m[self], C) = Times(m0[self], Times(m0[other], C))

\* A x B was computed from two matrices that are no identities, and there is
\* a C with which the result does not commute.
C6_Witness ==
  /\ Returned("multiply")
  /\ self # other
  /\ ~IsIdentityState(m0[self]) /\ ~IsIdentityState(m0[other])
  /\ m[self] # m0[self]
  /\ \E C \in ArbFamily : Times(m[self], C) # Times(C, m[self])

\* ---------------------------------------------------------------- C7
\* C7: A and B fresh, A.setTranslation(x1,y1,z1), B.setTranslation(x2,y2,z2),
\* A.multiply(B): A's elements 12, 13, 14 are x1+x2, y1+y2, z1+z2 and the
\* determinant of A is 1; for (10,5,0) and (2,3,1) they are 12, 8, 1.
FreshTranslation(mat) ==
  mat = SetTranslationOf(Matrix4New(mat), <<mat[12], mat[13], mat[14]>>)

C7_TranslationsCompose ==
  (Returned("multiply") /\ self # other
     /\ FreshTranslation(m0[self]) /\ FreshTranslation(m0[other])) =>
    /\ m[self][12] = m0[self][12] + m0[other][12]
    /\ m[self][13] = m0[self][13] + m0[other][13]
    /\ m[self][14] = m0[self][14] + m0[other][14]
    /\ GetDeterminantOf(m[self]) = 1
    /\ (/\ <<m0[self][12], m0[self][13], m0[self][14]>> = <<10, 5, 0>>
        /\ <<m0[other][12], m0[other][13], m0[other][14]>> = <<2, 3, 1>>)
         => <<m[self][12], m[self][13], m[self][14]>> = <<12, 8, 1>>

\* main(): matA at (10,5,0) was multiplied by matB at (2,3,1).
C7_Witness ==
  /\ Returned("multiply")
  /\ self = "matA" /\ other = "matB"
  /\ m0["matA"] = SetTranslationOf(Matrix4New(m0["matA"]), <<10, 5, 0>>)
  /\ m0["matB"] = SetTranslationOf(Matrix4New(m0["matB"]), <<2, 3, 1>>)
  /\ <<m["matA"][12], m["matA"][13], m["matA"][14]>> = <<12, 8, 1>>

\* ---------------------------------------------------------------- C8
\* C8: getDeterminant() returns the cofactor expansion along row 0 of the
\* upper-left 3x3 block; the value does not change with elements 3, 7, 11,
\* 12, 13, 14, 15; it is 1 for an identity block and 0 when two rows of the
\* block are equal; the call changes no element.
C8_Determinant ==
  Returned("getDeterminant") =>
    LET b == Block3(m[self])
    IN  /\ ret = Cofactor3(b)
        /\ \A j \in {3, 7, 11, 12, 13, 14, 15} : \A v \in -2 .. 2 :
             GetDeterminantOf([m[self] EXCEPT ![j] = v]) = ret
        /\ (\A row \in 0 .. 2 : \A col \in 0 .. 2 :
              b[row][col] = (IF row = col THEN 1 ELSE 0)) => ret = 1
        /\ (\E r1 \in 0 .. 2 : \E r2 \in 0 .. 2 : r1 # r2 /\ b[r1] = b[r2]) => ret = 0
        /\ m = m0

\* The determinant of a block with two equal, non-zero rows was taken, in a
\* matrix whose fourth row and column are not zero.
C8_Witness ==
  /\ Returned("getDeterminant")
  /\ Block3(m[self])[0] = Block3(m[self])[1]
  /\ m[self][1] # 0 /\ m[self][2] # 0 /\ m[self][8] # 0
  /\ m[self][3] # 0 /\ m[self][12] # 0
  /\ ret = 0

\* ---------------------------------------------------------------- C9
\* C9: a newly constructed matrix is in the identity state; identity(), in
\* any state, puts the receiver in it, changes no other matrix and is
\* idempotent.
C9_Identity ==
  /\ op = "new" => \A a \in Mats : IsIdentityState(m[a])
  /\ Returned("identity") =>
       /\ IsIdentityState(m[self])
       /\ \A b \in Mats \ {self} : m[b] = m0[b]
       /\ IdentityOf(m[self]) = m[self]

\* identity() reset a matrix that a multiply had moved to (12,8,1), next to
\* a matrix that is no identity.
C9_Witness ==
  /\ Returned("identity")
  /\ <<m0[self][12], m0[self][13], m0[self][14]>> = <<12, 8, 1>>
  /\ \E b \in Mats \ {self} : ~IsIdentityState(m[b])

\* ---------------------------------------------------------------- C10
\* C10: in a pool built by the constructor and changed only by identity(),
\* setTranslation and multiply, every matrix is a pure translation in every
\* state; getDeterminant() returns 1; multiply adds other's elements 12, 13,
\* 14 to the receiver's.
C10_PureTranslations ==
  /\ \A a \in Mats : IsPureTranslation(m[a]) /\ GetDeterminantOf(m[a]) = 1
  /\ Returned("getDeterminant") => ret = 1
  /\ Returned("multiply") =>
       \A j \in {12, 13, 14} : m[self][j] = m0[self][j] + m0[other][j]

\* A translation was multiplied by itself and has doubled.
C10_Witness ==
  /\ Returned("multiply")
  /\ self = other
  /\ <<m0[self][12], m0[self][13], m0[self][14]>> = <<-3, 0, 4>>
  /\ <<m[self][12], m[self][13], m[self][14]>> = <<-6, 0, 8>>

====
